---------------------------- MODULE Spec2Model ----------------------------
(***************************************************************************)
(* A model of dashboard3.py, a Streamlit page.  Every user interaction     *)
(* re-runs the whole script top to bottom; st.session_state survives the   *)
(* re-runs.  One action below is one whole script run.  The outside world  *)
(* (the S3 object, the Cost Explorer billing data, the EC2 inventory and   *)
(* the UTC clock) is state of the model; whether a network call succeeds   *)
(* is chosen per call.                                                     *)
(*                                                                         *)
(* Money is counted in cents (the source uses binary floats: every         *)
(* per-record cost round(size * rate, 2) is the float nearest to the exact *)
(* cent amount, sums are float sums).  Time is counted in ticks,           *)
(* TicksPerDay ticks to a day; a date is a day number.                     *)
(***************************************************************************)
EXTENDS Integers, Sequences, FiniteSets, TLC

VARIABLES
    now,            \* the UTC clock, in ticks (datetime.utcnow())
    s3Object,       \* the object stored under (bucket, key)
    billing,        \* Cost Explorer's data: day -> groups
    inventory,      \* EC2: volumes (status available), addresses, snapshots
    idle_data,      \* st.session_state.idle_data
    cost_data,      \* st.session_state.cost_data
    cost_period,    \* ghost: the TimePeriod of the call that produced cost_data
    stale_data,     \* st.session_state.stale_data
    start_date,     \* value of the "Start Date" widget
    end_date,       \* value of the "End Date" widget
    date_widgets,   \* whether the date widgets hold state, and the day whose defaults they were built with
    view,           \* what the last script run put on the page
    calls           \* ghost: the external calls of the last script run

vars == <<now, s3Object, billing, inventory, idle_data, cost_data, cost_period,
          stale_data, start_date, end_date, date_widgets, view, calls>>

----------------------------------------------------------------------------
(* Bounds of the model *)

TicksPerDay == 2
Now0 == 401
MaxTicks == 1
MaxRows == 3
MaxItems == 3

(* Constants of the program *)

DEFAULT_RANGE_DAYS == 7
SNAPSHOT_AGE_DAYS == 60
EBS_COST_PER_GB == 10
EIP_COST_PER_MONTH == 360
SNAPSHOT_COST_PER_GB == 5

----------------------------------------------------------------------------
(* Python and JSON values.  Every value is a record with a tag t, so that  *)
(* any two values can be compared.                                         *)

None == [t |-> "None"]            \* Python None; json.loads("null")
Absent == [t |-> "absent"]        \* a key a dict does not have
NotShown == [t |-> "not_shown"]   \* an element the run did not render
Num(n) == [t |-> "num", v |-> n]
Str(s) == [t |-> "str", v |-> s]
List(n) == [t |-> "list", n |-> n]
Garbage == [t |-> "garbage"]      \* an object body that is not JSON

Summary(total, idle, active, savings) ==
    [t |-> "dict", total_instances_analyzed |-> total, idle_instances |-> idle,
     active_instances |-> active, potential_monthly_savings |-> savings]
Metadata(ts) == [t |-> "dict", timestamp |-> ts]
Doc(summary, metadata, other) ==
    [t |-> "dict", summary |-> summary, metadata |-> metadata, other |-> other]

EmptySummary == Summary(Absent, Absent, Absent, Absent)
EmptyMetadata == Metadata(Absent)

\* bool(v)
Truthy(v) ==
    CASE v.t = "None" -> FALSE
      [] v.t = "num"  -> v.v # 0
      [] v.t = "str"  -> v.v # ""
      [] v.t = "list" -> v.n > 0
      [] v.t = "dict" -> \E k \in DOMAIN v \ {"t"} : v[k] # Absent
      [] OTHER -> TRUE

\* d.get(k, default), for a dict d
Get(d, k, default) == IF d[k] = Absent THEN default ELSE d[k]

\* k in d, for a dict d
Has(d, k) == d[k] # Absent

----------------------------------------------------------------------------
(* Section 1: the idle EC2 analysis read from S3 *)

\* clients["s3"].get_object(...) followed by json.loads(body.read()):
\* the parsed value, or the exception raised
s3_read(obj, denied) ==
    IF denied THEN [ok |-> FALSE, kind |-> "AccessDenied", value |-> None]
    ELSE IF obj = Absent THEN [ok |-> FALSE, kind |-> "NoSuchKey", value |-> None]
    ELSE IF obj = Garbage THEN [ok |-> FALSE, kind |-> "JSONDecodeError", value |-> None]
    ELSE [ok |-> TRUE, kind |-> "ok", value |-> obj]

get_lambda_results_from_s3_swallowing(obj, denied) ==
    LET r == s3_read(obj, denied) IN
    [ret |-> IF r.ok THEN r.value
             ELSE Doc(Summary(Num(0), Num(0), Num(0), Num(0)), Absent, Absent),
     errors |-> <<>>,
     kind |-> r.kind]

\* get_lambda_results_from_s3: what it returns, what it shows with st.error
get_lambda_results_from_s3(obj, denied) ==
    LET r == s3_read(obj, denied) IN
    [ret |-> IF r.ok THEN r.value ELSE None,
     errors |-> IF r.ok THEN <<>> ELSE <<Str(r.kind)>>,
     kind |-> r.kind]

IdleBlank ==
    [info |-> FALSE, total |-> NotShown, idle |-> NotShown, active |-> NotShown,
     savings |-> NotShown, updated |-> NotShown]

\* lines 161-174: the page elements for data, and the exception that ends the run
RenderIdle(data) ==
    IF ~Truthy(data) THEN [shown |-> [IdleBlank EXCEPT !.info = TRUE], exc |-> None]
    ELSE IF data.t # "dict" THEN [shown |-> IdleBlank, exc |-> Str("AttributeError")]
    ELSE
        LET summary == Get(data, "summary", EmptySummary)
            metadata == Get(data, "metadata", EmptyMetadata)
        IN
        IF summary.t # "dict" THEN [shown |-> IdleBlank, exc |-> Str("AttributeError")]
        ELSE
            LET three == [IdleBlank EXCEPT
                    !.total = Get(summary, "total_instances_analyzed", Num(0)),
                    !.idle = Get(summary, "idle_instances", Num(0)),
                    !.active = Get(summary, "active_instances", Num(0))]
                savings == Get(summary, "potential_monthly_savings", Num(0))
            IN
            IF savings.t # "num" THEN [shown |-> three, exc |-> Str("FormatError")]
            ELSE
                LET four == [three EXCEPT !.savings = savings] IN
                IF metadata.t # "dict" THEN [shown |-> four, exc |-> Str("AttributeError")]
                ELSE [shown |-> [four EXCEPT !.updated = Get(metadata, "timestamp", Str("N/A"))],
                      exc |-> None]

\* lines 156-174: every way the section can go.  A result gives
\* session_state.idle_data after it, the page elements, the S3 calls made
\* (kind and returned value) and the exception that ended the run, if any.
IdleSection(idle0, clicked, obj) ==
    LET gets == {get_lambda_results_from_s3(obj, d) : d \in BOOLEAN}
        firsts == IF clicked THEN gets ELSE {[ret |-> idle0, errors |-> <<>>, kind |-> "none"]}
        After(f, s) ==
            LET data == IF Truthy(f.ret) THEN f.ret ELSE s.ret
                r == RenderIdle(data)
            IN [idle_data |-> f.ret,
                data |-> data,
                shown |-> r.shown,
                errors |-> f.errors \o s.errors,
                s3 |-> (IF f.kind = "none" THEN <<>> ELSE <<[kind |-> f.kind, ret |-> f.ret]>>)
                       \o (IF s.kind = "none" THEN <<>> ELSE <<[kind |-> s.kind, ret |-> s.ret]>>),
                exc |-> r.exc]
    IN UNION { IF Truthy(f.ret)
               THEN {After(f, [ret |-> None, errors |-> <<>>, kind |-> "none"])}
               ELSE {After(f, s) : s \in gets}
             : f \in firsts }

----------------------------------------------------------------------------
(* Section 2: the Cost Explorer breakdown *)

Date(t) == t \div TicksPerDay      \* datetime -> its calendar day

Group(service, amount) == [Keys |-> <<service>>, Amount |-> amount]
Groups(g) == [t |-> "groups", g |-> g]

\* ce.get_cost_and_usage(TimePeriod = [start, end), DAILY, grouped by SERVICE):
\* one result per day of the period, the end day excluded, in the order the
\* service chooses
get_cost_and_usage(start, end, bill, rev) ==
    LET n == end - start
        Day(i) == IF rev THEN end - i ELSE start + i - 1
    IN [i \in 1..n |->
           [Start |-> Day(i),
            Groups |-> IF Day(i) \in DOMAIN bill THEN bill[Day(i)] ELSE Groups(<<>>)]]

\* lines 66-69: the rows of one result; result.get("Groups", [])
RowsOfResult(result) ==
    LET gs == IF result.Groups = Absent THEN <<>> ELSE result.Groups.g IN
    [j \in 1..Len(gs) |->
        [Date |-> result.Start, Service |-> gs[j].Keys[1], Cost |-> gs[j].Amount]]

\* lines 63-69
RECURSIVE RowsOfResponse(_)
RowsOfResponse(results) ==
    IF results = <<>> THEN <<>>
    ELSE RowsOfResult(Head(results)) \o RowsOfResponse(Tail(results))

DataFrame(rows) == [t |-> "DataFrame", rows |-> rows]

\* fetch_cost_explorer_data(start_date, end_date): no exception is caught.
\* The page always passes both dates, so the defaults of lines 48-51 are
\* never taken.
fetch_cost_explorer_data(start, end, bill, o) ==
    IF ~o.ok THEN [raised |-> TRUE, ret |-> None]
    ELSE [raised |-> FALSE,
          ret |-> DataFrame(RowsOfResponse(get_cost_and_usage(start, end, bill, o.rev)))]

CEOutcomes == {[ok |-> TRUE, rev |-> FALSE], [ok |-> TRUE, rev |-> TRUE],
               [ok |-> FALSE, rev |-> FALSE]}

\* df_cost["Cost"].sum()
RECURSIVE SumCostSkippingFirst(_)
SumCostSkippingFirst(rows) ==
    IF Len(rows) <= 1 THEN 0
    ELSE rows[Len(rows)].Cost + SumCostSkippingFirst(SubSeq(rows, 1, Len(rows) - 1))

RECURSIVE SumCost(_)
SumCost(rows) ==
    IF rows = <<>> THEN 0 ELSE Head(rows).Cost + SumCost(Tail(rows))

\* df_cost.groupby("Service")["Cost"].sum(): the rows are read in order and
\* each is added to its service's running sum
RECURSIVE GroupBySumInto(_, _)
GroupBySumInto(rows, acc) ==
    IF rows = <<>> THEN acc
    ELSE LET r == Head(rows) IN
         GroupBySumInto(Tail(rows),
            IF r.Service \in DOMAIN acc
            THEN [acc EXCEPT ![r.Service] = @ + r.Cost]
            ELSE acc @@ (r.Service :> r.Cost))

RECURSIVE GroupByLastInto(_, _)
GroupByLastInto(rows, acc) ==
    IF rows = <<>> THEN acc
    ELSE LET r == Head(rows) IN
         GroupByLastInto(Tail(rows),
            IF r.Service \in DOMAIN acc
            THEN [acc EXCEPT ![r.Service] = r.Cost]
            ELSE acc @@ (r.Service :> r.Cost))

ServiceSummaryLast(rows) == GroupByLastInto(rows, <<>>)

ServiceSummary(rows) == GroupBySumInto(rows, <<>>)

CostBlank ==
    [t |-> "not_run", button |-> FALSE, title |-> NotShown, total |-> NotShown,
     service_summary |-> NotShown, rows |-> NotShown, fetched |-> NotShown]

Period(start, end) == [t |-> "period", start |-> start, end |-> end]
Table(f) == [t |-> "table", by |-> f]

\* lines 199-216
RenderCost(df_cost, fetched, start, end) ==
    IF df_cost.rows # <<>>
    THEN [CostBlank EXCEPT !.t = "figures", !.button = TRUE,
             !.title = Period(start, end),
             !.total = Num(SumCost(df_cost.rows)),
             !.service_summary = Table(ServiceSummary(df_cost.rows)),
             !.rows = df_cost,
             !.fetched = fetched]
    ELSE [CostBlank EXCEPT !.t = "warning", !.button = TRUE,
             !.rows = df_cost, !.fetched = fetched]

RangeRejectedWhenAfter(start, end) == start > end

\* line 186
RangeRejected(start, end) == start >= end

\* lines 186-216: every way the section can go
CostSection(cost0, period0, clicked, start, end, bill) ==
    IF RangeRejected(start, end)
    THEN {[cost_data |-> cost0, cost_period |-> period0,
           shown |-> [CostBlank EXCEPT !.t = "range_error"],
           ce |-> <<>>, exc |-> None]}
    ELSE
        LET called == clicked \/ cost0 = None
            Aborted(o) ==
                [cost_data |-> cost0, cost_period |-> period0,
                 shown |-> [CostBlank EXCEPT !.t = "aborted", !.button = TRUE],
                 ce |-> <<[period |-> Period(start, end), ok |-> FALSE]>>,
                 exc |-> Str("ClientError")]
            Fetched(o) ==
                LET df == fetch_cost_explorer_data(start, end, bill, o).ret IN
                [cost_data |-> IF clicked THEN df ELSE cost0,
                 cost_period |-> IF clicked THEN Period(start, end) ELSE period0,
                 shown |-> RenderCost(df, Period(start, end), start, end),
                 ce |-> <<[period |-> Period(start, end), ok |-> TRUE]>>,
                 exc |-> None]
        IN IF called
           THEN {IF fetch_cost_explorer_data(start, end, bill, o).raised
                 THEN Aborted(o) ELSE Fetched(o) : o \in CEOutcomes}
           ELSE {[cost_data |-> cost0, cost_period |-> period0,
                  shown |-> RenderCost(cost0, period0, start, end),
                  ce |-> <<>>, exc |-> None]}

----------------------------------------------------------------------------
(* Section 3: stale resources and their estimated cost *)

Volume(id, size, created) == [VolumeId |-> id, Size |-> size, CreateTime |-> created]
Address(ip, alloc, domain, instance) ==
    [PublicIp |-> ip, AllocationId |-> alloc, Domain |-> domain, InstanceId |-> instance]
Snapshot(id, vol, started, state, size) ==
    [SnapshotId |-> id, VolumeId |-> vol, StartTime |-> started, State |-> state,
     VolumeSize |-> size]

RECURSIVE SumEstimates(_)
SumEstimates(s) ==
    IF s = <<>> THEN 0 ELSE Head(s).EstimatedMonthlyCost + SumEstimates(Tail(s))

\* lines 87-96
VolumeCostAtSnapshotRate(size) == size * SNAPSHOT_COST_PER_GB

VolumeCost(size) == size * EBS_COST_PER_GB

UnattachedVolume(v) ==
    [VolumeId |-> v.VolumeId, Size |-> v.Size, CreationDate |-> Date(v.CreateTime),
     Region |-> "region", EstimatedMonthlyCost |-> VolumeCost(v.Size)]

\* lines 100-108
IsAssociatedByDomain(addr) == ~Has(addr, "Domain")

IsAssociated(addr) == Has(addr, "InstanceId")

UnassociatedEip(addr) ==
    [PublicIp |-> addr.PublicIp, AllocationId |-> addr.AllocationId,
     Domain |-> Get(addr, "Domain", Str("N/A")),
     EstimatedMonthlyCost |-> EIP_COST_PER_MONTH]

\* lines 112-123
CutoffDate(t) == t - SNAPSHOT_AGE_DAYS * TicksPerDay

IsOldSnapshotInclusive(snap, cutoff_date) == snap.StartTime <= cutoff_date

IsOldSnapshot(snap, cutoff_date) == snap.StartTime < cutoff_date

OldSnapshot(snap) ==
    [SnapshotId |-> snap.SnapshotId, VolumeId |-> snap.VolumeId,
     StartTime |-> Date(snap.StartTime), State |-> snap.State,
     Size |-> Get(snap, "VolumeSize", Num(0)).v,
     EstimatedMonthlyCost |-> Get(snap, "VolumeSize", Num(0)).v * SNAPSHOT_COST_PER_GB]

Ec2Ops == <<"describe_volumes", "describe_addresses", "describe_snapshots">>

\* lines 85-129 when no call fails: the tuple returned
Estimate(inv, t) ==
    LET unattached_volumes ==
            [i \in 1..Len(inv.volumes) |-> UnattachedVolume(inv.volumes[i])]
        free == SelectSeq(inv.addresses, LAMBDA a : ~IsAssociated(a))
        unassociated_eips == [i \in 1..Len(free) |-> UnassociatedEip(free[i])]
        cutoff_date == CutoffDate(t)
        old == SelectSeq(inv.snapshots, LAMBDA sn : IsOldSnapshot(sn, cutoff_date))
        old_snapshots == [i \in 1..Len(old) |-> OldSnapshot(old[i])]
    IN [t |-> "tuple",
        unattached_volumes |-> unattached_volumes,
        unassociated_eips |-> unassociated_eips,
        old_snapshots |-> old_snapshots,
        total_savings |-> SumEstimates(unattached_volumes)
                          + SumEstimates(unassociated_eips)
                          + SumEstimates(old_snapshots)]

\* the same with a failed call's list replaced by the empty list
detect_stale_resources_masking(inv, t, failAt) ==
    LET seen == [volumes |-> IF failAt = 1 THEN <<>> ELSE inv.volumes,
                 addresses |-> IF failAt = 2 THEN <<>> ELSE inv.addresses,
                 snapshots |-> IF failAt = 3 THEN <<>> ELSE inv.snapshots]
    IN [raised |-> FALSE,
        ret |-> Estimate(seen, t),
        ec2 |-> [i \in 1..3 |-> [op |-> Ec2Ops[i], ok |-> i # failAt]]]

\* detect_stale_resources_with_cost(): the three calls are made in order and
\* the first that fails (failAt, 0 for none) raises out of the function
detect_stale_resources_with_cost(inv, t, failAt) ==
    IF failAt = 0
    THEN [raised |-> FALSE,
          ret |-> Estimate(inv, t),
          ec2 |-> [i \in 1..3 |-> [op |-> Ec2Ops[i], ok |-> TRUE]]]
    ELSE [raised |-> TRUE,
          ret |-> None,
          ec2 |-> [i \in 1..failAt |-> [op |-> Ec2Ops[i], ok |-> i < failAt]]]

StaleBlank == [t |-> "not_run", data |-> NotShown]

\* lines 222-246: every way the section can go
StaleSection(stale0, clicked, inv, t) ==
    LET Shown(d) == IF d # None THEN [t |-> "tables", data |-> d]
                    ELSE [t |-> "nothing", data |-> NotShown]
    IN IF clicked
       THEN { LET r == detect_stale_resources_with_cost(inv, t, failAt) IN
              IF r.raised
              THEN [stale_data |-> stale0, shown |-> [t |-> "aborted", data |-> NotShown],
                    ec2 |-> r.ec2, exc |-> Str("ClientError")]
              ELSE [stale_data |-> r.ret, shown |-> Shown(r.ret),
                    ec2 |-> r.ec2, exc |-> None]
            : failAt \in 0..3 }
       ELSE {[stale_data |-> stale0, shown |-> Shown(stale0), ec2 |-> <<>>, exc |-> None]}

----------------------------------------------------------------------------
(* One run of the script *)

ViewBlank ==
    [ran |-> FALSE, data |-> NotShown, idle |-> IdleBlank, errors |-> <<>>,
     cost |-> CostBlank, stale |-> StaleBlank, exc |-> None]

CallsBlank == [click |-> "none", at |-> Now0, s3 |-> <<>>, ce |-> <<>>, ec2 |-> <<>>]

DefaultStart(today) == today - DEFAULT_RANGE_DAYS
DefaultEnd(today) == today

\* Every outcome of a run in which the button `click` was pressed ("none":
\* no button) and the date widgets hold sd and ed.  A date widget is rebuilt
\* with its default when the default changes, and loses its state when a run
\* does not reach it.  An uncaught exception ends the run where it is raised.
RunResults(click, sd, ed) ==
    LET today == Date(now)
        keep == date_widgets.live /\ date_widgets.day = today
        start == IF keep THEN sd ELSE DefaultStart(today)
        end == IF keep THEN ed ELSE DefaultEnd(today)
        One(s1) ==
            [idle_data |-> s1.idle_data, cost_data |-> cost_data,
             cost_period |-> cost_period, stale_data |-> stale_data,
             start_date |-> DefaultStart(today), end_date |-> DefaultEnd(today),
             date_widgets |-> [live |-> FALSE, day |-> today],
             view |-> [ViewBlank EXCEPT !.ran = TRUE, !.data = s1.data,
                          !.idle = s1.shown, !.errors = s1.errors, !.exc = s1.exc],
             calls |-> [CallsBlank EXCEPT !.click = click, !.at = now, !.s3 = s1.s3]]
        Two(s1, s2) ==
            [One(s1) EXCEPT
                !.cost_data = s2.cost_data, !.cost_period = s2.cost_period,
                !.start_date = start, !.end_date = end,
                !.date_widgets = [live |-> TRUE, day |-> today],
                !.view.cost = s2.shown, !.view.exc = s2.exc,
                !.calls.ce = s2.ce]
        Three(s1, s2, s3) ==
            [Two(s1, s2) EXCEPT
                !.stale_data = s3.stale_data,
                !.view.stale = s3.shown, !.view.exc = s3.exc,
                !.calls.ec2 = s3.ec2]
    IN UNION {
         IF s1.exc # None THEN {One(s1)}
         ELSE UNION {
                IF s2.exc # None THEN {Two(s1, s2)}
                ELSE {Three(s1, s2, s3) :
                        s3 \in StaleSection(stale_data, click = "stale", inventory, now)}
              : s2 \in CostSection(cost_data, cost_period, click = "cost",
                                   start, end, billing) }
       : s1 \in IdleSection(idle_data, click = "idle", s3Object) }

Apply(r) ==
    /\ idle_data' = r.idle_data
    /\ cost_data' = r.cost_data
    /\ cost_period' = r.cost_period
    /\ stale_data' = r.stale_data
    /\ start_date' = r.start_date
    /\ end_date' = r.end_date
    /\ date_widgets' = r.date_widgets
    /\ view' = r.view
    /\ calls' = r.calls
    /\ UNCHANGED <<now, s3Object, billing, inventory>>

\* the dates the user picks in a date widget
DateChoices(today) == {today - DEFAULT_RANGE_DAYS, today - 1, today}

\* the page is loaded or re-run with no widget changed
Rerun == \E r \in RunResults("none", start_date, end_date) : Apply(r)

\* "Refresh Idle EC2 Analysis"
ClickIdle ==
    /\ view.ran
    /\ \E r \in RunResults("idle", start_date, end_date) : Apply(r)

\* "Refresh Cost Explorer Data"
ClickCost ==
    /\ view.cost.button
    /\ \E r \in RunResults("cost", start_date, end_date) : Apply(r)

\* "Detect Stale Resources & Estimate Savings"
ClickStale ==
    /\ view.stale.t # "not_run"
    /\ \E r \in RunResults("stale", start_date, end_date) : Apply(r)

SetStartDate ==
    /\ date_widgets.live
    /\ \E d \in DateChoices(date_widgets.day) \ {start_date} :
         \E r \in RunResults("none", d, end_date) : Apply(r)

SetEndDate ==
    /\ date_widgets.live
    /\ \E d \in DateChoices(date_widgets.day) \ {end_date} :
         \E r \in RunResults("none", start_date, d) : Apply(r)

----------------------------------------------------------------------------
(* The outside world *)

SeqsUpTo(S, n) == UNION {[1..k -> S] : k \in 0..n}

Today0 == Date(Now0)
Cutoff0 == CutoffDate(Now0)

FullSummary == Summary(Num(3), Num(1), Num(2), Num(50))
SummaryChoices ==
    {Absent, None, EmptySummary, FullSummary,
     Summary(Num(3), Absent, Absent, Absent),
     Summary(Num(3), Num(1), Num(2), Str("n/a")),
     Summary(Num(3), Num(1), Num(2), None)}
MetadataChoices == {Absent, None, EmptyMetadata, Metadata(Str("T1"))}

DocsSmall == {Absent, Garbage, Doc(FullSummary, Metadata(Str("T1")), Absent)}
DocsRich ==
    {Absent, Garbage, None, List(0), List(2)}
    \cup {Doc(s, m, o) : s \in SummaryChoices, m \in MetadataChoices, o \in {Absent, Num(1)}}

BillDays == {Today0 - 2, Today0 - 1}
GroupChoices == {Group("S3", 10), Group("S3", 5), Group("EC2", 20), Group("EC2", -5)}
DayChoices(n) == {Absent} \cup {Groups(g) : g \in SeqsUpTo(GroupChoices, n)}
DayLen(e) == IF e = Absent THEN 0 ELSE Len(e.g)

NoBilling == [d \in BillDays |-> Groups(<<>>)]
ExampleBilling ==
    [d \in BillDays |-> IF d = Today0 - 2
                        THEN Groups(<<Group("S3", 10), Group("EC2", 20)>>)
                        ELSE Groups(<<Group("S3", 5)>>)]
BillingsSmall == {NoBilling, ExampleBilling}
BillingsRich ==
    {b \in [BillDays -> DayChoices(MaxRows)] :
        DayLen(b[Today0 - 2]) + DayLen(b[Today0 - 1]) <= MaxRows}

SizeChoices == {8, 100}
AddressChoices ==
    {[Domain |-> Str("vpc"), InstanceId |-> Absent],
     [Domain |-> Absent, InstanceId |-> Absent],
     [Domain |-> Str("vpc"), InstanceId |-> Str("i-1")]}
SnapshotChoices ==
    {[StartTime |-> Now0 - 91 * TicksPerDay, VolumeSize |-> Num(100)],
     [StartTime |-> Cutoff0, VolumeSize |-> Absent],
     [StartTime |-> Now0 - 15 * TicksPerDay, VolumeSize |-> Num(8)]}

VolumesOf(sizes) ==
    [i \in 1..Len(sizes) |-> Volume(i, sizes[i], Now0 - 10 * TicksPerDay - i)]
AddressesOf(cs) ==
    [i \in 1..Len(cs) |-> Address(i, i, cs[i].Domain, cs[i].InstanceId)]
SnapshotsOf(cs) ==
    [i \in 1..Len(cs) |-> Snapshot(i, i, cs[i].StartTime, "completed", cs[i].VolumeSize)]

Inventory(v, a, s) ==
    [volumes |-> VolumesOf(v), addresses |-> AddressesOf(a), snapshots |-> SnapshotsOf(s)]

NoInventory == Inventory(<<>>, <<>>, <<>>)
ExampleInventory ==
    Inventory(<<100>>,
              <<[Domain |-> Str("vpc"), InstanceId |-> Absent]>>,
              <<[StartTime |-> Now0 - 91 * TicksPerDay, VolumeSize |-> Num(100)]>>)
InventoriesSmall == {NoInventory, ExampleInventory}
InventoriesRich ==
    UNION { UNION { { Inventory(v, a, s) :
                        s \in SeqsUpTo(SnapshotChoices, MaxItems - Len(v) - Len(a)) }
                  : a \in SeqsUpTo(AddressChoices, MaxItems - Len(v)) }
          : v \in SeqsUpTo(SizeChoices, MaxItems) }

\* the clock advances
Tick ==
    /\ now < Now0 + MaxTicks
    /\ now' = now + 1
    /\ UNCHANGED <<s3Object, billing, inventory, idle_data, cost_data, cost_period,
                   stale_data, start_date, end_date, date_widgets, view, calls>>

\* the analysis job writes the object, or the object is removed
S3Put ==
    /\ \E o \in DocsRich \ {s3Object} : s3Object' = o
    /\ UNCHANGED <<now, billing, inventory, idle_data, cost_data, cost_period,
                   stale_data, start_date, end_date, date_widgets, view, calls>>

----------------------------------------------------------------------------
(* Specifications *)

\* a fresh session: lines 134-139, before the first run reaches a widget
InitWith(docs, bills, invs) ==
    /\ now = Now0
    /\ s3Object \in docs
    /\ billing \in bills
    /\ inventory \in invs
    /\ idle_data = None
    /\ cost_data = None
    /\ cost_period = NotShown
    /\ stale_data = None
    /\ start_date = DefaultStart(Today0)
    /\ end_date = DefaultEnd(Today0)
    /\ date_widgets = [live |-> FALSE, day |-> Today0]
    /\ view = ViewBlank
    /\ calls = CallsBlank

\* the whole session
Init == InitWith(DocsSmall, BillingsSmall, InventoriesSmall)
Next ==
    \/ Rerun
    \/ ClickIdle
    \/ ClickCost
    \/ ClickStale
    \/ SetStartDate
    \/ SetEndDate
Spec == Init /\ [][Next]_vars

\* the idle analysis over every shape of stored document, which may be rewritten
InitIdle == InitWith(DocsRich, {NoBilling}, {NoInventory})
NextIdle ==
    \/ Rerun
    \/ ClickIdle
    \/ S3Put
SpecIdle == InitIdle /\ [][NextIdle]_vars

\* the cost breakdown over every billing data
InitCost == InitWith({Absent}, BillingsRich, {NoInventory})
NextCost ==
    \/ Rerun
    \/ ClickCost
    \/ SetStartDate
    \/ SetEndDate
SpecCost == InitCost /\ [][NextCost]_vars

\* the stale resource estimate over every inventory, as time passes
InitStale == InitWith({Absent}, {NoBilling}, InventoriesRich)
NextStale ==
    \/ Rerun
    \/ ClickStale
    \/ Tick
SpecStale == InitStale /\ [][NextStale]_vars

----------------------------------------------------------------------------
(* Properties *)

\* the sum of f over the index set S, in no particular order
RECURSIVE SumOf(_, _)
SumOf(f, S) ==
    IF S = {} THEN 0
    ELSE LET x == CHOOSE x \in S : TRUE IN f[x] + SumOf(f, S \ {x})

Reverse(s) == [i \in 1..Len(s) |-> s[Len(s) + 1 - i]]

FailedEc2Call(c) == \E i \in DOMAIN c.ec2 : ~c.ec2[i].ok
DetectReturned(c) ==
    c.click = "stale" /\ Len(c.ec2) = 3 /\ \A i \in 1..3 : c.ec2[i].ok

\* C1: the stale-resource estimate is all-or-nothing.  A run in which one of
\* the three inventory calls fails ends with the exception, shows no stale
\* tables and leaves session_state.stale_data as it was; stale_data changes
\* only in a run whose three calls all succeeded, and then holds every
\* volume of the inventory and a total that is the sum over its three lists.
StaleAllOrNothing ==
    [][ /\ FailedEc2Call(calls') =>
              /\ stale_data' = stale_data
              /\ view'.stale = [t |-> "aborted", data |-> NotShown]
              /\ view'.exc # None
        /\ stale_data' # stale_data =>
              /\ DetectReturned(calls')
              /\ Len(stale_data'.unattached_volumes) = Len(inventory.volumes)
              /\ stale_data'.total_savings =
                    SumOf([i \in DOMAIN stale_data'.unattached_volumes |->
                              stale_data'.unattached_volumes[i].EstimatedMonthlyCost],
                          DOMAIN stale_data'.unattached_volumes)
                    + SumOf([i \in DOMAIN stale_data'.unassociated_eips |->
                              stale_data'.unassociated_eips[i].EstimatedMonthlyCost],
                          DOMAIN stale_data'.unassociated_eips)
                    + SumOf([i \in DOMAIN stale_data'.old_snapshots |->
                              stale_data'.old_snapshots[i].EstimatedMonthlyCost],
                          DOMAIN stale_data'.old_snapshots)
      ]_vars

\* a cached estimate survives a run whose snapshot call failed after the
\* volume and address calls succeeded
StaleFailureWithCache ==
    /\ stale_data # None
    /\ stale_data.total_savings > 0
    /\ Len(calls.ec2) = 3
    /\ ~calls.ec2[3].ok

LastS3Failed == calls.s3 # <<>> /\ calls.s3[Len(calls.s3)].kind # "ok"

\* C2 (as amended): a failed object-store read makes
\* get_lambda_results_from_s3 show one error message naming the exception and
\* return None, whatever the failure kind; a run whose last read failed
\* renders no summary metric, only the "no data" notice; and a refresh whose
\* read failed leaves idle_data = None.
S3FailureIsNoData ==
    /\ \A i \in DOMAIN calls.s3 : calls.s3[i].kind # "ok" => calls.s3[i].ret = None
    /\ LET failed == SelectSeq(calls.s3, LAMBDA c : c.kind # "ok") IN
       view.errors = [i \in 1..Len(failed) |-> Str(failed[i].kind)]
    /\ LastS3Failed => view.data = None /\ view.idle = [IdleBlank EXCEPT !.info = TRUE]
    /\ (calls.click = "idle" /\ calls.s3[1].kind # "ok") => idle_data = None

\* a refresh whose read found the body not to be JSON, and the fallback read
\* was denied
S3FailureSeen ==
    /\ calls.click = "idle"
    /\ Len(calls.s3) = 2
    /\ calls.s3[1].kind = "JSONDecodeError"
    /\ calls.s3[2].kind = "AccessDenied"
    /\ view.idle.info

\* C2 (as claimed): every failed read is returned to the caller as a
\* structured error that identifies the failure kind.
S3FailureIsStructuredError ==
    \A i \in DOMAIN calls.s3 :
        calls.s3[i].kind # "ok" => calls.s3[i].ret = [t |-> "error", kind |-> calls.s3[i].kind]

\* C3: with start >= end the page shows the range error and nothing else of
\* the cost section, and the run makes no Cost Explorer call; no run ever
\* calls Cost Explorer for a period that is not start < end.
InvalidRangeMakesNoCall ==
    /\ start_date >= end_date =>
          calls.ce = <<>> /\ view.cost = [CostBlank EXCEPT !.t = "range_error"]
    /\ \A i \in DOMAIN calls.ce : calls.ce[i].period.start < calls.ce[i].period.end

\* start = end is rejected while a result is cached
InvalidRangeWithCache ==
    /\ start_date = end_date
    /\ cost_data # None
    /\ view.cost.t = "range_error"

UnassociatedEipsLackInstance ==
    DetectReturned(calls) =>
        LET want == SelectSeq(inventory.addresses, LAMBDA a : a.InstanceId = Absent)
            got == stale_data.unassociated_eips
        IN /\ Len(got) = Len(want)
           /\ \A i \in DOMAIN got :
                /\ got[i].PublicIp = want[i].PublicIp
                /\ got[i].AllocationId = want[i].AllocationId
                /\ got[i].Domain = IF want[i].Domain = Absent THEN Str("N/A")
                                   ELSE want[i].Domain

\* an attached address is dropped, an unattached one without Domain is kept
AddressCasesSeen ==
    /\ DetectReturned(calls)
    /\ Len(inventory.addresses) = 3
    /\ inventory.addresses[1].InstanceId # Absent
    /\ inventory.addresses[2].InstanceId = Absent
    /\ inventory.addresses[2].Domain = Absent
    /\ Len(stale_data.unassociated_eips) = 2
    /\ stale_data.unassociated_eips[1].Domain = Str("N/A")

\* C6: in every estimate held, each volume costs size x 0.10, each address
\* 3.60, each snapshot size x 0.05 with a missing size counted as 0, and
\* total_savings is the sum of the costs of the records of the three lists.
EstimatesUseFixedRates ==
    stale_data # None =>
        LET vs == stale_data.unattached_volumes
            es == stale_data.unassociated_eips
            ss == stale_data.old_snapshots
        IN /\ Len(vs) = Len(inventory.volumes)
           /\ \A i \in DOMAIN vs :
                /\ vs[i].Size = inventory.volumes[i].Size
                /\ vs[i].EstimatedMonthlyCost = vs[i].Size * 10
           /\ \A i \in DOMAIN es : es[i].EstimatedMonthlyCost = 360
           /\ \A i \in DOMAIN ss :
                LET sn == inventory.snapshots[ss[i].SnapshotId] IN
                /\ ss[i].Size = IF sn.VolumeSize = Absent THEN 0 ELSE sn.VolumeSize.v
                /\ ss[i].EstimatedMonthlyCost = ss[i].Size * 5
           /\ stale_data.total_savings =
                SumOf([i \in DOMAIN vs |-> vs[i].EstimatedMonthlyCost], DOMAIN vs)
                + SumOf([i \in DOMAIN es |-> es[i].EstimatedMonthlyCost], DOMAIN es)
                + SumOf([i \in DOMAIN ss |-> ss[i].EstimatedMonthlyCost], DOMAIN ss)

\* a 100 GiB volume at 10.00, an address at 3.60 and a snapshot without a
\* size at 0.00 give 13.60
EstimateCasesSeen ==
    /\ stale_data # None
    /\ Len(stale_data.unattached_volumes) = 1
    /\ stale_data.unattached_volumes[1].Size = 100
    /\ stale_data.unattached_volumes[1].EstimatedMonthlyCost = 1000
    /\ Len(stale_data.unassociated_eips) = 1
    /\ Len(stale_data.old_snapshots) = 1
    /\ stale_data.old_snapshots[1].Size = 0
    /\ stale_data.total_savings = 1360

CostRowsOf(v) == v.cost.rows.rows

\* C7 (as amended): when the rows the page holds are not empty, the total it
\* shows is the sum of their costs; when they are empty it shows no total at
\* all, only the "no cost data" warning.
TotalCostIsSumUnlessEmpty ==
    view.cost.rows # NotShown =>
        LET rows == CostRowsOf(view) IN
        IF rows # <<>>
        THEN /\ view.cost.t = "figures"
             /\ view.cost.total =
                    Num(SumOf([i \in DOMAIN rows |-> rows[i].Cost], DOMAIN rows))
        ELSE /\ view.cost.t = "warning"
             /\ view.cost.total = NotShown
             /\ view.cost.service_summary = NotShown

\* the rows (d, S3, 10), (d, EC2, 20), (d + 1, S3, 5) total 35
TotalOfThreeRowsSeen ==
    /\ view.cost.t = "figures"
    /\ Len(CostRowsOf(view)) = 3
    /\ CostRowsOf(view)[1].Cost = 10
    /\ CostRowsOf(view)[2].Cost = 20
    /\ CostRowsOf(view)[3].Cost = 5
    /\ view.cost.total = Num(35)

\* C7 (as claimed): for every fetched sequence of rows, the empty one
\* included, the page computes a total equal to the sum of the costs.
TotalCostIsSum ==
    view.cost.rows # NotShown =>
        LET rows == CostRowsOf(view) IN
        view.cost.total = Num(SumOf([i \in DOMAIN rows |-> rows[i].Cost], DOMAIN rows))

\* C8: the per-service summary shown has exactly the services of the rows,
\* each with the sum of the costs of its rows over all dates, and is the same
\* for the rows in the opposite order.
ServiceSummaryIsPerServiceSum ==
    view.cost.t = "figures" =>
        LET rows == CostRowsOf(view)
            by == view.cost.service_summary.by
        IN /\ DOMAIN by = {rows[i].Service : i \in DOMAIN rows}
           /\ \A sv \in DOMAIN by :
                by[sv] = SumOf([i \in DOMAIN rows |-> rows[i].Cost],
                               {i \in DOMAIN rows : rows[i].Service = sv})
           /\ ServiceSummary(Reverse(rows)) = by

\* rows of two dates and two services give S3: 15, EC2: 20
ServiceSummaryOfExampleSeen ==
    /\ view.cost.t = "figures"
    /\ Len(CostRowsOf(view)) = 3
    /\ Cardinality({CostRowsOf(view)[i].Date : i \in 1..3}) = 2
    /\ DOMAIN view.cost.service_summary.by = {"S3", "EC2"}
    /\ view.cost.service_summary.by["S3"] = 15
    /\ view.cost.service_summary.by["EC2"] = 20

\* the value rendered by the idle section was parsed from the object
RenderedParsedDocument ==
    /\ view.ran
    /\ view.data # NotShown
    /\ calls.s3 = <<>> \/ calls.s3[Len(calls.s3)].kind = "ok"

FieldOrZero(d, k) == IF d.t = "dict" /\ d[k] # Absent THEN d[k] ELSE Num(0)

\* C9: rendering a parsed JSON object never raises, and every one of the
\* four summary fields that is missing (the whole summary included) is shown
\* as zero and a missing timestamp as "N/A".
IdleSummaryNeverErrors ==
    (RenderedParsedDocument /\ view.data.t = "dict") =>
        /\ ~(view.exc # None /\ view.cost.t = "not_run")
        /\    LET summary == view.data.summary
                  metadata == view.data.metadata
              IN /\ view.idle.total = FieldOrZero(summary, "total_instances_analyzed")
                 /\ view.idle.idle = FieldOrZero(summary, "idle_instances")
                 /\ view.idle.active = FieldOrZero(summary, "active_instances")
                 /\ view.idle.savings = FieldOrZero(summary, "potential_monthly_savings")
                 /\ view.idle.updated = IF metadata.t = "dict" /\ metadata.timestamp # Absent
                                        THEN metadata.timestamp ELSE Str("N/A")

\* C10: the cost figures on the page were fetched for the period selected
\* and shown in their titles.
FiguresAreForSelectedPeriod ==
    view.cost.t = "figures" =>
        /\ view.cost.title = Period(start_date, end_date)
        /\ view.cost.fetched = Period(start_date, end_date)

=============================================================================
